---- MODULE Spec2Model ----
(***************************************************************************)
(* The consent manager of src/src/ccmanager.js: the CookieConsent object,  *)
(* the cookie it keeps in document.cookie, the banner element it shows and *)
(* hides, and the timers show() and hide() schedule.                       *)
(*                                                                         *)
(* Strings are sequences of tokens.  A token is one character that matters *)
(* to a parser of the program or of the browser (";", "=", " ", the JSON   *)
(* punctuation, the double quote) or a run of plain characters ("true",    *)
(* "analytics").  Category values hold no double quote and no backslash,   *)
(* so JSON.stringify escapes nothing in them.                              *)
(*                                                                         *)
(* A point in time is [s |-> seconds, ms |-> 0..999]: Date keeps           *)
(* milliseconds, Date.toUTCString keeps seconds.                           *)
(***************************************************************************)
EXTENDS Integers, Sequences, FiniteSets, TLC

VARIABLES
    now,          \* the clock, Date.now()
    calls,        \* how many calls the page and other tabs have made (bounded)
    container,    \* this.container: "undefined" | "null" | "element"
    cookieExpiry, \* this.config.cookieExpiry, in days
    boxes,        \* the category checkboxes inside the banner, in document order
    display,      \* container.style.display: "" | "block" | "none"
    isVisible,    \* container.classList.contains('is-visible')
    timers,       \* pending setTimeout callbacks, in order of registration
    jar,          \* the browser's cookie store for the page
    call,         \* the step just taken: its name, argument, result and events
    lastVis,      \* history: the last of show() / hide() to be called
    lastOp,       \* history: the name of the last call the page has made
    overlapped,   \* history: show() or hide() has run while a timer was pending
    listeners,    \* how many times bindEvents has bound the buttons
    written       \* history: the last consentData handed to setCookie

vars == <<now, calls, container, cookieExpiry, boxes, display,
          isVisible, timers, jar, call, lastVis, lastOp, overlapped, listeners,
          written>>

---------------------------------------------------------------------------
(* Bounds of the model *)

MaxCalls == 3
StartMs == 250

(* Constants of the program *)

ShowDelay == 10
HideDelay == 300
DefaultCookieExpiry == 365
MsPerSecond == 1000
SecondsPerDay == 24 * 60 * 60

CookieName == "cookie_consent"

Q == "\""

Necessary == <<"necessary">>
Analytics == <<"analytics">>
Marketing == <<"marketing">>

\* the fallback of accept() when no box is checked
DefaultCategories == <<Necessary, Analytics, Marketing>>

---------------------------------------------------------------------------
(* Time *)

Epoch == [s |-> 0, ms |-> 0]

\* the clock when the page is loaded
StartTime == [s |-> SecondsPerDay, ms |-> StartMs]

TimeLT(a, b) == a.s < b.s \/ (a.s = b.s /\ a.ms < b.ms)

TimeLE(a, b) == a = b \/ TimeLT(a, b)

\* setTimeout(f, d): the instant d milliseconds after t
AddMs(t, d) ==
    LET total == t.ms + d
    IN  [s |-> t.s + (total \div MsPerSecond), ms |-> total % MsPerSecond]

\* date.setTime(date.getTime() + (days * 24 * 60 * 60 * 1000))
AddDays(t, days) == [s |-> t.s + days * SecondsPerDay, ms |-> t.ms]

\* date.toUTCString(): "Thu, 01 Jan 1970 00:00:00 GMT" has no milliseconds
ToUTCString(t) == [s |-> t.s, ms |-> 0]

\* new Date().toISOString(): "1970-01-01T00:00:00.000Z" keeps them
ToISOString(t) == <<ToString(t.s), ".", ToString(t.ms), "Z">>

---------------------------------------------------------------------------
(* Strings *)

\* s.indexOf(tok, i), 1-based; 0 when tok does not occur at or after i
IndexFrom(s, i, tok) ==
    IF \E j \in i..Len(s) : s[j] = tok
    THEN CHOOSE j \in i..Len(s) : s[j] = tok /\ \A k \in i..(j - 1) : s[k] # tok
    ELSE 0

At(s, i) == IF i \in 1..Len(s) THEN s[i] ELSE "<end>"

\* s.startsWith(p, i)
HasAt(s, i, p) == \A k \in 1..Len(p) : At(s, i + k - 1) = p[k]

RECURSIVE Split(_, _)
\* s.split(sep)
Split(s, sep) ==
    LET j == IndexFrom(s, 1, sep)
    IN  IF j = 0 THEN <<s>>
        ELSE <<SubSeq(s, 1, j - 1)>> \o Split(SubSeq(s, j + 1, Len(s)), sep)

RECURSIVE StripLeft(_)
\* while (cookie.charAt(0) === ' ') cookie = cookie.substring(1)
StripLeft(s) == IF Len(s) > 0 /\ s[1] = " " THEN StripLeft(Tail(s)) ELSE s

RECURSIVE StripRight(_)
StripRight(s) ==
    IF Len(s) > 0 /\ s[Len(s)] = " " THEN StripRight(SubSeq(s, 1, Len(s) - 1)) ELSE s

Trim(s) == StripRight(StripLeft(s))

RECURSIVE Join(_, _)
\* parts.join(sep), sep a string
Join(parts, sep) ==
    IF Len(parts) = 0 THEN <<>>
    ELSE IF Len(parts) = 1 THEN parts[1]
    ELSE parts[1] \o sep \o Join(Tail(parts), sep)

---------------------------------------------------------------------------
(* JSON, for the one shape of object the program writes *)

NoDecision == [accepted |-> FALSE, categories |-> <<>>, timestamp |-> <<>>]

RECURSIVE QuoteAll(_)
QuoteAll(strs) ==
    IF Len(strs) = 0 THEN <<>>
    ELSE <<(<<Q>> \o strs[1] \o <<Q>>)>> \o QuoteAll(Tail(strs))

\* JSON.stringify(consentData)
JSONStringify(d) ==
    <<"{", Q, "accepted", Q, ":", IF d.accepted THEN "true" ELSE "false", ",",
      Q, "categories", Q, ":", "[">>
    \o Join(QuoteAll(d.categories), <<",">>)
    \o <<"]", ",", Q, "timestamp", Q, ":", Q>> \o d.timestamp \o <<Q, "}">>

\* a JSON string starting at s[i]: its content runs to the next double quote
ParseString(s, i) ==
    LET j == IndexFrom(s, i + 1, Q)
    IN  IF At(s, i) = Q /\ j > 0
        THEN [ok |-> TRUE, val |-> SubSeq(s, i + 1, j - 1), next |-> j + 1]
        ELSE [ok |-> FALSE, val |-> <<>>, next |-> 0]

RECURSIVE ParseElements(_, _, _)
ParseElements(s, i, acc) ==
    LET r == ParseString(s, i)
    IN  IF ~r.ok THEN [ok |-> FALSE, val |-> <<>>, next |-> 0]
        ELSE IF At(s, r.next) = ","
             THEN ParseElements(s, r.next + 1, Append(acc, r.val))
        ELSE IF At(s, r.next) = "]"
             THEN [ok |-> TRUE, val |-> Append(acc, r.val), next |-> r.next + 1]
        ELSE [ok |-> FALSE, val |-> <<>>, next |-> 0]

\* a JSON array of strings starting at s[i]
ParseArray(s, i) ==
    IF At(s, i) # "[" THEN [ok |-> FALSE, val |-> <<>>, next |-> 0]
    ELSE IF At(s, i + 1) = "]" THEN [ok |-> TRUE, val |-> <<>>, next |-> i + 2]
    ELSE ParseElements(s, i + 1, <<>>)

\* JSON.parse(text): [ok |-> FALSE] stands for the SyntaxError it throws
JSONParse(s) ==
    LET arr == ParseArray(s, 12)
        ts  == ParseString(s, arr.next + 5)
        ok  == /\ HasAt(s, 1, <<"{", Q, "accepted", Q, ":">>)
               /\ At(s, 6) \in {"true", "false"}
               /\ HasAt(s, 7, <<",", Q, "categories", Q, ":">>)
               /\ arr.ok
               /\ HasAt(s, arr.next, <<",", Q, "timestamp", Q, ":">>)
               /\ ts.ok
               /\ At(s, ts.next) = "}"
               /\ ts.next = Len(s)
    IN  IF ok
        THEN [ok |-> TRUE,
              d  |-> [accepted |-> (s[6] = "true"), categories |-> arr.val,
                      timestamp |-> ts.val]]
        ELSE [ok |-> FALSE, d |-> NoDecision]

---------------------------------------------------------------------------
(* The browser's cookie store.  A cookie is                                *)
(* [name, value, session, expires]; a session cookie has no expiry.        *)

Cookie(name, value, session, expires) ==
    [name |-> name, value |-> value, session |-> session, expires |-> expires]

\* a cookie the page holds that is not the program's
OtherCookie == Cookie(<<"theme">>, <<"a", "=", "b">>, TRUE, Epoch)

\* a cookie whose expiry time has been reached is gone
Live(c, t) == c.session \/ TimeLT(t, c.expires)

IndexOfName(j, name) ==
    IF \E i \in 1..Len(j) : j[i].name = name
    THEN CHOOSE i \in 1..Len(j) : j[i].name = name
    ELSE 0

RemoveAt(j, i) == SubSeq(j, 1, i - 1) \o SubSeq(j, i + 1, Len(j))

\* document.cookie = text + ';expires=' + expires + ';path=/...' at time t.
\* The browser takes the text up to the first ";" as name=value, trims both,
\* and replaces the cookie of that name; an expiry that is not in the future
\* removes it instead.  What follows a ";" inside the text is read as an
\* attribute of no known name and dropped.
AssignCookie(j, t, text, expires) ==
    LET pair  == Split(text, ";")[1]
        eq    == IndexFrom(pair, 1, "=")
        name  == Trim(SubSeq(pair, 1, eq - 1))
        value == Trim(SubSeq(pair, eq + 1, Len(pair)))
        c     == Cookie(name, value, FALSE, expires)
        i     == IndexOfName(j, name)
    IN  IF Live(c, t)
        THEN IF i = 0 THEN Append(j, c) ELSE [j EXCEPT ![i] = c]
        ELSE IF i = 0 THEN j ELSE RemoveAt(j, i)

RECURSIVE Pairs(_)
Pairs(j) ==
    IF Len(j) = 0 THEN <<>>
    ELSE <<(j[1].name \o <<"=">> \o j[1].value)>> \o Pairs(Tail(j))

\* reading document.cookie at time t: "a=1; b=2" over the live cookies
DocumentCookie(j, t) ==
    LET IsLive(c) == Live(c, t)
    IN  Join(Pairs(SelectSeq(j, IsLive)), <<";", " ">>)

---------------------------------------------------------------------------
(* The program's functions on the cookie *)

\* the window added as if it were milliseconds
SetCookieExpiresInMs(t, days) == ToUTCString(AddMs(t, days))

\* the expiry setCookie puts in the cookie: now + days, through toUTCString
SetCookieExpires(t, days) == ToUTCString(AddDays(t, days))

\* setCookie(name, value, days) at time t
setCookie(j, t, name, value, days) ==
    AssignCookie(j, t, <<name, "=">> \o value, SetCookieExpires(t, days))

\* a delete that empties the whole cookie store
deleteCookieClearingJar(j, t, name) == <<>>

\* deleteCookie(name)
deleteCookie(j, t, name) == AssignCookie(j, t, <<name, "=">>, Epoch)

\* getCookie(name): [found |-> FALSE] stands for null
getCookie(j, t, name) ==
    LET cookies == Split(DocumentCookie(j, t), ";")
        Match(i) == HasAt(StripLeft(cookies[i]), 1, <<name, "=">>)
    IN  IF \E i \in 1..Len(cookies) : Match(i)
        THEN LET i == CHOOSE k \in 1..Len(cookies) :
                          Match(k) /\ \A m \in 1..(k - 1) : ~Match(m)
                 c == StripLeft(cookies[i])
             IN  [found |-> TRUE, value |-> SubSeq(c, 3, Len(c))]
        ELSE [found |-> FALSE, value |-> <<>>]

---------------------------------------------------------------------------
(* What a call returns or throws *)

Ret(tag, b, d) == [tag |-> tag, b |-> b, d |-> d, cookies |-> <<>>]

RetUndefined == Ret("undefined", FALSE, NoDecision)
RetNull == Ret("null", FALSE, NoDecision)
RetBool(b) == Ret("bool", b, NoDecision)
RetDecision(d) == Ret("decision", FALSE, d)
\* the array viewCookies() returns
RetCookies(list) == [Ret("cookies", FALSE, NoDecision) EXCEPT !.cookies = list]
\* reading a property of null or undefined
TypeError == Ret("TypeError", FALSE, NoDecision)
\* JSON.parse on text that is not JSON
SyntaxError == Ret("SyntaxError", FALSE, NoDecision)

Throws(r) == r.tag \in {"TypeError", "SyntaxError"}

\* getConsent(): consent ? JSON.parse(consent) : null
getConsent(j, t) ==
    LET consent == getCookie(j, t, CookieName)
        parsed  == JSONParse(consent.value)
    IN  IF ~consent.found \/ consent.value = <<>> THEN RetNull
        ELSE IF parsed.ok THEN RetDecision(parsed.d)
        ELSE SyntaxError

\* categories.includes(category)
Includes(categories, category) ==
    \E i \in 1..Len(categories) : categories[i] = category

\* hasConsent(category)
hasConsent(j, t, category) ==
    LET consent == getConsent(j, t)
    IN  IF Throws(consent) THEN consent
        ELSE IF consent.tag = "null" \/ ~consent.d.accepted THEN RetBool(FALSE)
        ELSE RetBool(Includes(consent.d.categories, category))

RECURSIVE CookieEntries(_)
\* the reduce of viewCookies(): const [name, value] = cookie.trim().split('=')
\* keeps the first two parts, and an entry is pushed when name is not empty
CookieEntries(cookies) ==
    IF Len(cookies) = 0 THEN <<>>
    ELSE LET parts == Split(Trim(cookies[1]), "=")
             name  == parts[1]
             value == IF Len(parts) > 1 THEN parts[2] ELSE <<>>
         IN  (IF Len(name) > 0 THEN <<[name |-> name, value |-> value]>> ELSE <<>>)
             \o CookieEntries(Tail(cookies))

\* allCookies of viewCookies()
viewCookies(j, t) == CookieEntries(Split(DocumentCookie(j, t), ";"))

---------------------------------------------------------------------------
(* The page *)

Box(value, disabled) == [value |-> value, disabled |-> disabled]

\* the banner of the README: "necessary" checked and disabled, two choices
ReadmePage == <<Box(Necessary, TRUE), Box(Analytics, FALSE), Box(Marketing, FALSE)>>

\* a banner whose host names its categories freely, none of them "necessary"
CustomPage ==
    <<Box(Analytics, FALSE), Box(<<"ads", ";", "social">>, FALSE),
      Box(<<"a", "=", "b", " ", "c">>, FALSE)>>

Pages == {ReadmePage, CustomPage}

\* the sets of boxes the visitor can leave checked: a disabled box stays checked
CheckedSets(bs) ==
    {chk \in SUBSET (1..Len(bs)) : \A i \in 1..Len(bs) : bs[i].disabled => i \in chk}

\* the categories hasConsent is asked about
Categories == {ReadmePage[i].value : i \in 1..Len(ReadmePage)}
              \cup {CustomPage[i].value : i \in 1..Len(CustomPage)}

\* the values init is given for cookieExpiry, in days
ExpiryOptions == {1, DefaultCookieExpiry}

\* the lengths an outside writer cuts the stored value to
CorruptLengths == {0, 6}

---------------------------------------------------------------------------
(* Steps of the program *)

\* triggerEvent(eventName): detail is undefined
Event(name) == [name |-> name, has |-> FALSE, d |-> NoDecision, cookies |-> <<>>]

\* triggerEvent(eventName, consentData)
EventWith(name, d) == [name |-> name, has |-> TRUE, d |-> d, cookies |-> <<>>]

\* triggerEvent(eventName, { cookies: allCookies })
EventWithCookies(name, list) ==
    [name |-> name, has |-> TRUE, d |-> NoDecision, cookies |-> list]

\* sel: the categories checked when accept or reject is called
Call(op, ret, events) ==
    [op |-> op, sel |-> <<>>, ret |-> ret, events |-> events]

\* by: who last changed the stored record
NoWrite(by) == [valid |-> FALSE, d |-> NoDecision, at |-> Epoch, days |-> 0, by |-> by]

\* getSelectedCategories(): the values of the checked boxes, in document order
getSelectedCategories(bs, chk) ==
    LET IsChecked(i) == i \in chk
        sel == SelectSeq([i \in 1..Len(bs) |-> i], IsChecked)
    IN  [k \in 1..Len(sel) |-> bs[sel[k]].value]

\* consentData of accept()
AcceptData(categories, t) ==
    [accepted   |-> TRUE,
     categories |-> IF Len(categories) > 0 THEN categories ELSE DefaultCategories,
     timestamp  |-> ToISOString(t)]

\* a reject() that keeps the fallback list of accept()
RejectDataWithDefaults(t) ==
    [accepted |-> FALSE, categories |-> DefaultCategories, timestamp |-> ToISOString(t)]

\* consentData of reject()
RejectData(t) ==
    [accepted |-> FALSE, categories |-> <<Necessary>>, timestamp |-> ToISOString(t)]

\* the timer show() registers
ShowTimer(t) == [kind |-> "show", due |-> AddMs(t, ShowDelay)]

\* the timer hide() registers
HideTimer(t) == [kind |-> "hide", due |-> AddMs(t, HideDelay)]

\* the page, or another tab, makes one more call
Budget == calls < MaxCalls

\* show() with a container
ShowBody ==
    /\ display' = "block"
    /\ timers' = Append(timers, ShowTimer(now))
    /\ lastVis' = "show"
    /\ overlapped' = (overlapped \/ timers # <<>>)
    /\ UNCHANGED isVisible

\* a hide() that takes the banner out of layout at once
HideBodyAtOnce ==
    /\ isVisible' = FALSE
    /\ display' = "none"
    /\ timers' = Append(timers, HideTimer(now))
    /\ lastVis' = "hide"
    /\ overlapped' = (overlapped \/ timers # <<>>)

\* hide() with a container
HideBody ==
    /\ isVisible' = FALSE
    /\ timers' = Append(timers, HideTimer(now))
    /\ lastVis' = "hide"
    /\ overlapped' = (overlapped \/ timers # <<>>)
    /\ UNCHANGED display

\* an init that shows the banner whatever is stored
InitCallAlwaysShows(found, expiry) ==
    /\ Budget
    /\ cookieExpiry' = expiry
    /\ container' = IF found THEN "element" ELSE "null"
    /\ IF ~found
       THEN /\ call' = Call("init", RetUndefined, <<>>)
            /\ UNCHANGED <<display, isVisible, timers, lastVis, overlapped>>
       ELSE /\ ShowBody
            /\ call' = Call("init", RetUndefined, <<Event("banner-shown")>>)
    /\ calls' = calls + 1
    /\ lastOp' = "init"
    /\ listeners' = IF found THEN listeners + 1 ELSE listeners
    /\ UNCHANGED <<now, boxes, jar, written>>

\* init(options): found tells whether containerSelector matches an element,
\* expiry is cookieExpiry after the options are merged into the config
InitCall(found, expiry) ==
    /\ Budget
    /\ cookieExpiry' = expiry
    /\ container' = IF found THEN "element" ELSE "null"
    /\ IF ~found
       THEN /\ call' = Call("init", RetUndefined, <<>>)
            /\ UNCHANGED <<display, isVisible, timers, lastVis, overlapped>>
       ELSE LET consent == getCookie(jar, now, CookieName)
            IN  IF ~consent.found \/ consent.value = <<>>
                THEN /\ ShowBody
                     /\ call' = Call("init", RetUndefined, <<Event("banner-shown")>>)
                ELSE /\ HideBody
                     /\ call' = Call("init", RetUndefined, <<Event("banner-hidden")>>)
    /\ calls' = calls + 1
    /\ lastOp' = "init"
    /\ listeners' = IF found THEN listeners + 1 ELSE listeners
    /\ UNCHANGED <<now, boxes, jar, written>>

\* show()
Show ==
    /\ Budget
    /\ IF container = "element"
       THEN /\ ShowBody
            /\ call' = Call("show", RetUndefined, <<Event("banner-shown")>>)
       ELSE /\ call' = Call("show", TypeError, <<>>)
            /\ UNCHANGED <<display, isVisible, timers, lastVis, overlapped>>
    /\ calls' = calls + 1
    /\ lastOp' = "show"
    /\ UNCHANGED <<now, container, listeners, cookieExpiry, boxes, jar, written>>

\* hide()
Hide ==
    /\ Budget
    /\ IF container = "element"
       THEN /\ HideBody
            /\ call' = Call("hide", RetUndefined, <<Event("banner-hidden")>>)
       ELSE /\ call' = Call("hide", TypeError, <<>>)
            /\ UNCHANGED <<display, isVisible, timers, lastVis, overlapped>>
    /\ calls' = calls + 1
    /\ lastOp' = "hide"
    /\ UNCHANGED <<now, container, listeners, cookieExpiry, boxes, jar, written>>

\* accept() with the boxes of chk checked: getSelectedCategories reads
\* this.container first
Accept(chk) ==
    /\ Budget
    /\ IF container = "element"
       THEN LET consentData == AcceptData(getSelectedCategories(boxes, chk), now)
            IN  /\ jar' = setCookie(jar, now, CookieName, JSONStringify(consentData),
                                    cookieExpiry)
                /\ written' = [valid |-> TRUE, d |-> consentData, at |-> now,
                               days |-> cookieExpiry, by |-> "accept"]
                /\ HideBody
                /\ call' = [Call("accept", RetUndefined,
                                 <<Event("banner-hidden"),
                                   EventWith("consent-given", consentData)>>)
                            EXCEPT !.sel = getSelectedCategories(boxes, chk)]
       ELSE /\ call' = [Call("accept", TypeError, <<>>)
                        EXCEPT !.sel = getSelectedCategories(boxes, chk)]
            /\ UNCHANGED <<display, isVisible, timers, lastVis, overlapped, jar, written>>
    /\ calls' = calls + 1
    /\ lastOp' = "accept"
    /\ UNCHANGED <<now, container, listeners, cookieExpiry, boxes>>

\* a reject() that stores 'necessary' and the categories that are checked
RejectStoringChecked(chk) ==
    /\ Budget
    /\ LET consentData ==
               [RejectData(now) EXCEPT
                   !.categories = <<Necessary>> \o getSelectedCategories(boxes, chk)]
       IN  /\ jar' = setCookie(jar, now, CookieName, JSONStringify(consentData),
                               cookieExpiry)
           /\ written' = [valid |-> TRUE, d |-> consentData, at |-> now,
                          days |-> cookieExpiry, by |-> "reject"]
           /\ IF container = "element"
              THEN /\ HideBody
                   /\ call' = [Call("reject", RetUndefined,
                                    <<Event("banner-hidden"),
                                      EventWith("consent-rejected", consentData)>>)
                               EXCEPT !.sel = getSelectedCategories(boxes, chk)]
              ELSE /\ call' = [Call("reject", TypeError, <<>>)
                               EXCEPT !.sel = getSelectedCategories(boxes, chk)]
                   /\ UNCHANGED <<display, isVisible, timers, lastVis, overlapped>>
    /\ calls' = calls + 1
    /\ lastOp' = "reject"
    /\ UNCHANGED <<now, container, listeners, cookieExpiry, boxes>>

\* reject() with the boxes of chk checked: the cookie is written before
\* hide() reads this.container
Reject(chk) ==
    /\ Budget
    /\ LET consentData == RejectData(now)
       IN  /\ jar' = setCookie(jar, now, CookieName, JSONStringify(consentData),
                               cookieExpiry)
           /\ written' = [valid |-> TRUE, d |-> consentData, at |-> now,
                          days |-> cookieExpiry, by |-> "reject"]
           /\ IF container = "element"
              THEN /\ HideBody
                   /\ call' = [Call("reject", RetUndefined,
                                    <<Event("banner-hidden"),
                                      EventWith("consent-rejected", consentData)>>)
                               EXCEPT !.sel = getSelectedCategories(boxes, chk)]
              ELSE /\ call' = [Call("reject", TypeError, <<>>)
                               EXCEPT !.sel = getSelectedCategories(boxes, chk)]
                   /\ UNCHANGED <<display, isVisible, timers, lastVis, overlapped>>
    /\ calls' = calls + 1
    /\ lastOp' = "reject"
    /\ UNCHANGED <<now, container, listeners, cookieExpiry, boxes>>

\* revoke(): the cookie is deleted before show() reads this.container
Revoke ==
    /\ Budget
    /\ jar' = deleteCookie(jar, now, CookieName)
    /\ written' = NoWrite("revoke")
    /\ IF container = "element"
       THEN /\ ShowBody
            /\ call' = Call("revoke", RetUndefined,
                            <<Event("banner-shown"), Event("consent-revoked")>>)
       ELSE /\ call' = Call("revoke", TypeError, <<>>)
            /\ UNCHANGED <<display, isVisible, timers, lastVis, overlapped>>
    /\ calls' = calls + 1
    /\ lastOp' = "revoke"
    /\ UNCHANGED <<now, container, listeners, cookieExpiry, boxes>>

RECURSIVE Repeat(_, _)
\* what n listeners of one click leave, each leaving seq
Repeat(seq, n) == IF n = 0 THEN <<>> ELSE seq \o Repeat(seq, n - 1)

\* hide() run by each of n listeners of one click
HideTimes(n) ==
    /\ isVisible' = FALSE
    /\ timers' = timers \o Repeat(<<HideTimer(now)>>, n)
    /\ lastVis' = "hide"
    /\ overlapped' = (overlapped \/ timers # <<>> \/ n > 1)
    /\ UNCHANGED display

\* show() run by each of n listeners of one click
ShowTimes(n) ==
    /\ display' = "block"
    /\ timers' = timers \o Repeat(<<ShowTimer(now)>>, n)
    /\ lastVis' = "show"
    /\ overlapped' = (overlapped \/ timers # <<>> \/ n > 1)
    /\ UNCHANGED isVisible

\* a click on a js-cookie-accept button of the banner, with the boxes of chk
\* checked: every init that found the banner has added a listener to the
\* button, and each listener runs this.accept()
ClickAccept(chk) ==
    /\ Budget
    /\ container = "element"
    /\ listeners > 0
    /\ LET consentData == AcceptData(getSelectedCategories(boxes, chk), now)
       IN  /\ jar' = setCookie(jar, now, CookieName, JSONStringify(consentData),
                               cookieExpiry)
           /\ written' = [valid |-> TRUE, d |-> consentData, at |-> now,
                          days |-> cookieExpiry, by |-> "accept"]
           /\ HideTimes(listeners)
           /\ call' = [Call("click-accept", RetUndefined,
                            Repeat(<<Event("banner-hidden"),
                                     EventWith("consent-given", consentData)>>,
                                   listeners))
                       EXCEPT !.sel = getSelectedCategories(boxes, chk)]
    /\ calls' = calls + 1
    /\ lastOp' = "click-accept"
    /\ UNCHANGED <<now, container, listeners, cookieExpiry, boxes>>

\* a click on a js-cookie-reject button of the banner: each listener runs
\* this.reject()
ClickReject ==
    /\ Budget
    /\ container = "element"
    /\ listeners > 0
    /\ LET consentData == RejectData(now)
       IN  /\ jar' = setCookie(jar, now, CookieName, JSONStringify(consentData),
                               cookieExpiry)
           /\ written' = [valid |-> TRUE, d |-> consentData, at |-> now,
                          days |-> cookieExpiry, by |-> "reject"]
           /\ HideTimes(listeners)
           /\ call' = Call("click-reject", RetUndefined,
                           Repeat(<<Event("banner-hidden"),
                                    EventWith("consent-rejected", consentData)>>,
                                  listeners))
    /\ calls' = calls + 1
    /\ lastOp' = "click-reject"
    /\ UNCHANGED <<now, container, listeners, cookieExpiry, boxes>>

\* a click on a js-cookie-close button of the banner: each listener runs
\* this.hide()
ClickClose ==
    /\ Budget
    /\ container = "element"
    /\ listeners > 0
    /\ HideTimes(listeners)
    /\ call' = Call("click-close", RetUndefined,
                    Repeat(<<Event("banner-hidden")>>, listeners))
    /\ calls' = calls + 1
    /\ lastOp' = "click-close"
    /\ UNCHANGED <<now, container, listeners, cookieExpiry, boxes, jar, written>>

\* a click on a js-cookie-show-settings button of the page: each listener
\* runs this.show()
ClickShowSettings ==
    /\ Budget
    /\ container = "element"
    /\ listeners > 0
    /\ ShowTimes(listeners)
    /\ call' = Call("click-show-settings", RetUndefined,
                    Repeat(<<Event("banner-shown")>>, listeners))
    /\ calls' = calls + 1
    /\ lastOp' = "click-show-settings"
    /\ UNCHANGED <<now, container, listeners, cookieExpiry, boxes, jar, written>>

\* a getConsent() that answers from memory, where the page keeps nothing
GetConsentCached ==
    /\ Budget
    /\ call' = Call("getConsent", RetNull, <<>>)
    /\ calls' = calls + 1
    /\ lastOp' = "getConsent"
    /\ UNCHANGED <<now, container, listeners, cookieExpiry, boxes, display, isVisible,
                   timers, jar, lastVis, overlapped, written>>

\* the page calls getConsent()
GetConsent ==
    /\ Budget
    /\ call' = Call("getConsent", getConsent(jar, now), <<>>)
    /\ calls' = calls + 1
    /\ lastOp' = "getConsent"
    /\ UNCHANGED <<now, container, listeners, cookieExpiry, boxes, display, isVisible,
                   timers, jar, lastVis, overlapped, written>>

\* the page calls hasConsent(category)
HasConsent(category) ==
    /\ Budget
    /\ call' = Call("hasConsent", hasConsent(jar, now, category), <<>>)
    /\ calls' = calls + 1
    /\ lastOp' = "hasConsent"
    /\ UNCHANGED <<now, container, listeners, cookieExpiry, boxes, display, isVisible,
                   timers, jar, lastVis, overlapped, written>>

\* a viewCookies() that also clears the cookies it lists
ViewCookiesClearing ==
    /\ Budget
    /\ call' = Call("viewCookies", RetCookies(viewCookies(jar, now)),
                    <<EventWithCookies("cookies-viewed", viewCookies(jar, now))>>)
    /\ jar' = <<>>
    /\ calls' = calls + 1
    /\ lastOp' = "viewCookies"
    /\ UNCHANGED <<now, container, listeners, cookieExpiry, boxes, display, isVisible,
                   timers, lastVis, overlapped, written>>

\* viewCookies(): the overlay it builds is appended to document.body
ViewCookies ==
    /\ Budget
    /\ call' = Call("viewCookies", RetCookies(viewCookies(jar, now)),
                    <<EventWithCookies("cookies-viewed", viewCookies(jar, now))>>)
    /\ calls' = calls + 1
    /\ lastOp' = "viewCookies"
    /\ UNCHANGED <<now, container, listeners, cookieExpiry, boxes, display, isVisible,
                   timers, jar, lastVis, overlapped, written>>

---------------------------------------------------------------------------
(* What the page reads in the current state *)

\* what getConsent() returns or throws now
Consent == getConsent(jar, now)

\* the stored record as getCookie finds it now
Stored == getCookie(jar, now, CookieName)

---------------------------------------------------------------------------
(* Steps of the page, the browser and the world *)

\* the instants the clock advances to: those at which a timer is due or a
\* cookie expires
TickTargets ==
    {timers[i].due : i \in 1..Len(timers)}
    \cup {jar[i].expires : i \in {k \in 1..Len(jar) : ~jar[k].session}}

\* time passes, never beyond a timer that is due
Tick(target) ==
    /\ TimeLT(now, target)
    /\ \A i \in 1..Len(timers) : TimeLE(target, timers[i].due)
    /\ now' = target
    /\ call' = Call("tick", RetUndefined, <<>>)
    /\ UNCHANGED <<calls, container, listeners, cookieExpiry, boxes, display, isVisible,
                   timers, jar, lastVis, overlapped, lastOp, written>>

\* the callback show() registered: this.container.classList.add('is-visible')
ShowCallback ==
    IF container = "element"
    THEN /\ isVisible' = TRUE
         /\ call' = Call("timer", RetUndefined, <<>>)
    ELSE /\ call' = Call("timer", TypeError, <<>>)
         /\ UNCHANGED isVisible

\* the callback hide() registered: this.container.style.display = 'none'
HideCallback ==
    IF container = "element"
    THEN /\ display' = "none"
         /\ call' = Call("timer", RetUndefined, <<>>)
    ELSE /\ call' = Call("timer", TypeError, <<>>)
         /\ UNCHANGED display

\* the browser runs the earliest registered of the timers that are due
FireTimer ==
    /\ \E i \in 1..Len(timers) : TimeLE(timers[i].due, now)
    /\ LET i == CHOOSE k \in 1..Len(timers) :
                    /\ TimeLE(timers[k].due, now)
                    /\ \A m \in 1..(k - 1) : ~TimeLE(timers[m].due, now)
       IN  /\ timers' = RemoveAt(timers, i)
           /\ IF timers[i].kind = "show"
              THEN ShowCallback /\ UNCHANGED display
              ELSE HideCallback /\ UNCHANGED isVisible
    /\ UNCHANGED <<now, calls, container, listeners, cookieExpiry, boxes, jar,
                   lastVis, overlapped, lastOp, written>>

\* something outside the program cuts the stored value short
ExternalCorrupt(len) ==
    /\ \E i \in 1..Len(jar) :
          /\ jar[i].name = <<CookieName>>
          /\ Live(jar[i], now)
          /\ len < Len(jar[i].value)
          /\ jar' = [jar EXCEPT ![i].value = SubSeq(jar[i].value, 1, len)]
    /\ written' = NoWrite("outside")
    /\ call' = Call("corrupt", RetUndefined, <<>>)
    /\ UNCHANGED <<now, calls, container, listeners, cookieExpiry, boxes, display,
                   isVisible, timers, lastVis, overlapped, lastOp>>

\* the decisions another tab of the site writes
TabDecisions(t) == {AcceptData(<<Necessary, Analytics>>, t), RejectData(t)}

\* another tab of the site writes or replaces the record
ExternalWrite(d) ==
    /\ Budget
    /\ calls' = calls + 1
    /\ jar' = setCookie(jar, now, CookieName, JSONStringify(d), cookieExpiry)
    /\ written' = [valid |-> TRUE, d |-> d, at |-> now, days |-> cookieExpiry,
                   by |-> "tab"]
    /\ call' = Call("tab-write", RetUndefined, <<>>)
    /\ UNCHANGED <<now, container, listeners, cookieExpiry, boxes, display,
                   isVisible, timers, lastVis, overlapped, lastOp>>

\* another tab of the site deletes the record
ExternalDelete ==
    /\ Budget
    /\ calls' = calls + 1
    /\ Stored.found
    /\ jar' = deleteCookie(jar, now, CookieName)
    /\ written' = NoWrite("tab")
    /\ call' = Call("tab-delete", RetUndefined, <<>>)
    /\ UNCHANGED <<now, container, listeners, cookieExpiry, boxes, display,
                   isVisible, timers, lastVis, overlapped, lastOp>>

---------------------------------------------------------------------------
(* The specification *)

\* the page as it is loaded: the script has run, init has not, and the page
\* holds a cookie of its own
Init ==
    /\ now = StartTime
    /\ calls = 0
    /\ container = "undefined"
    /\ cookieExpiry = DefaultCookieExpiry
    /\ boxes \in Pages
    /\ display = ""
    /\ isVisible = FALSE
    /\ timers = <<>>
    /\ jar = <<OtherCookie>>
    /\ call = Call("load", RetUndefined, <<>>)
    /\ lastVis = "none"
    /\ overlapped = FALSE
    /\ listeners = 0
    /\ lastOp = "load"
    /\ written = NoWrite("none")

\* the calls the page makes, init being given one of the expiry windows
Program(windows) ==
    \/ \E found \in BOOLEAN, expiry \in windows \cup {cookieExpiry} :
          InitCall(found, expiry)
    \/ Show
    \/ Hide
    \/ \E chk \in CheckedSets(boxes) : Accept(chk)
    \/ \E chk \in CheckedSets(boxes) : Reject(chk)
    \/ Revoke
    \/ \E chk \in CheckedSets(boxes) : ClickAccept(chk)
    \/ ClickReject
    \/ ClickClose
    \/ ClickShowSettings
    \/ GetConsent
    \/ \E category \in Categories : HasConsent(category)
    \/ ViewCookies

World ==
    \/ \E target \in TickTargets : Tick(target)
    \/ FireTimer
    \/ \E len \in CorruptLengths : ExternalCorrupt(len)
    \/ \E d \in TabDecisions(now) : ExternalWrite(d)
    \/ ExternalDelete

Next == Program(ExpiryOptions) \/ World

Spec == Init /\ [][Next]_vars

\* the same program on a page that may also ask for a window already over
NextExpired == Program(ExpiryOptions \cup {-1}) \/ World

SpecExpired == Init /\ [][NextExpired]_vars

---------------------------------------------------------------------------
(* Helpers of the properties *)

\* the last call ran to its end
Completed == ~Throws(call.ret)

SameSet(a, b) == {a[i] : i \in 1..Len(a)} = {b[i] : i \in 1..Len(b)}

\* the call just made emitted the notification of this name
Emitted(c, name) == \E i \in 1..Len(c.events) : c.events[i].name = name

RECURSIVE Settled(_, _, _)
\* the class and the display the banner ends with when the pending timers ts
\* fire with no further call: the browser runs them by due time, and in
\* order of registration when due together
Settled(vis, disp, ts) ==
    IF Len(ts) = 0 THEN [isVisible |-> vis, display |-> disp]
    ELSE LET i == CHOOSE k \in 1..Len(ts) :
                      /\ \A m \in 1..Len(ts) : TimeLE(ts[k].due, ts[m].due)
                      /\ \A m \in 1..(k - 1) : ts[m].due # ts[k].due
         IN  IF ts[i].kind = "show"
             THEN Settled(TRUE, disp, RemoveAt(ts, i))
             ELSE Settled(vis, "none", RemoveAt(ts, i))

\* the cookies of the page that are not the program's
OtherCookies(j, t) ==
    LET IsOther(c) == Live(c, t) /\ c.name # <<CookieName>>
    IN  SelectSeq(j, IsOther)

\* the cookies of the page as name and value
LiveCookies(j, t) ==
    LET IsLive(c) == Live(c, t)
        live == SelectSeq(j, IsLive)
    IN  [i \in 1..Len(live) |-> [name |-> live[i].name, value |-> live[i].value]]

---------------------------------------------------------------------------
(* C1: after a successful init, once every timer has fired, display is     *)
(* 'block' if the last of show() and hide() to be called was show(), and   *)
(* 'none' if it was hide().                                                *)
C1_DisplayMatchesLastCall ==
    (container = "element" /\ timers = <<>>) =>
        /\ lastVis = "show" => display = "block"
        /\ lastVis = "hide" => display = "none"

(* C2: a stored decision with accepted = true has a category list that is  *)
(* not empty and contains 'necessary', whatever boxes were checked.        *)
C2_AcceptedHasNecessary ==
    (Consent.tag = "decision" /\ Consent.d.accepted) =>
        /\ Len(Consent.d.categories) > 0
        /\ Includes(Consent.d.categories, Necessary)

(* C3: a stored decision with accepted = false has exactly the categories  *)
(* {'necessary'}.                                                          *)
C3_RejectedOnlyNecessary ==
    (Consent.tag = "decision" /\ ~Consent.d.accepted) =>
        Consent.d.categories = <<Necessary>>

C3_Witness ==
    /\ call.op = "reject"
    /\ Consent.tag = "decision"
    /\ ~Consent.d.accepted

(* C4: getConsent() and hasConsent(category) never throw; when the stored  *)
(* value is not JSON, getConsent() returns null and hasConsent false.      *)
C4_ReadsNeverThrow ==
    /\ ~Throws(Consent)
    /\ \A c \in Categories : ~Throws(hasConsent(jar, now, c))
    /\ (Stored.found /\ ~JSONParse(Stored.value).ok) =>
           /\ Consent = RetNull
           /\ \A c \in Categories : hasConsent(jar, now, c) = RetBool(FALSE)

(* C5: when init found no container, no call of init, show, hide, accept,  *)
(* reject or revoke throws, and none stops half way.                       *)
C5_InertWithoutContainer ==
    (container = "null"
     /\ call.op \in {"init", "show", "hide", "accept", "reject", "revoke"}) =>
        /\ Completed
        /\ call.op = "revoke" =>
               \E i \in 1..Len(call.events) : call.events[i].name = "consent-revoked"

(* C6: right after accept() or reject() has written a decision D,          *)
(* getConsent() returns a decision with D's accepted flag and D's          *)
(* categories as a set, whatever strings the checked boxes have as values. *)
C6_RoundTrip ==
    (call.op \in {"accept", "reject"} /\ written.valid /\ written.at = now
     /\ (call.op = "accept" => Completed)) =>
        /\ Consent.tag = "decision"
        /\ Consent.d.accepted = written.d.accepted
        /\ SameSet(Consent.d.categories, written.d.categories)

C7_WrittenExpired ==
    /\ written.valid
    /\ written.days < 0
    /\ call.op \in {"accept", "reject"}
    /\ ~Stored.found

(* C8: for every stored state and every category c, hasConsent(c) returns  *)
(* true exactly when a decision is present, it is accepted and c is among  *)
(* its categories, and returns false otherwise.                            *)
C8_HasConsentIffMember ==
    \A c \in Categories :
        hasConsent(jar, now, c) =
            RetBool(/\ Stored.found
                    /\ JSONParse(Stored.value).ok
                    /\ JSONParse(Stored.value).d.accepted
                    /\ Includes(JSONParse(Stored.value).d.categories, c))

(* C9: right after reject(), hasConsent('analytics') is false; right after *)
(* an accept() that ran with the 'analytics' box checked, it is true.      *)
C9_AnalyticsFollowsLastChoice ==
    /\ call.op = "reject" => hasConsent(jar, now, Analytics) = RetBool(FALSE)
    /\ (call.op = "accept" /\ Completed /\ Includes(call.sel, Analytics)) =>
           hasConsent(jar, now, Analytics) = RetBool(TRUE)

(* C10: accept() stores a decision with accepted = true and the values of  *)
(* the checked boxes as categories, or necessary, analytics, marketing     *)
(* when none is checked; it hides the banner and emits 'consent-given'     *)
(* with the stored decision as payload.                                    *)
C10_AcceptStoresChecked ==
    (call.op = "accept" /\ Completed) =>
        /\ Consent.tag = "decision"
        /\ Consent.d.accepted
        /\ Consent.d.categories =
               IF Len(call.sel) > 0 THEN call.sel ELSE DefaultCategories
        /\ ~isVisible
        /\ \E i \in 1..Len(timers) : timers[i] = HideTimer(now)
        /\ Len(call.events) = 2
        /\ call.events[1] = Event("banner-hidden")
        /\ call.events[2] = EventWith("consent-given", Consent.d)

(* C11: reject() on a banner stores {accepted: false, categories:          *)
(* ['necessary'], timestamp: now}, hides the banner and emits              *)
(* 'consent-rejected' with that decision, whichever category boxes are     *)
(* checked when it is called.                                              *)
C11_RejectIgnoresCheckboxes ==
    (call.op = "reject" /\ container = "element") =>
        /\ Consent = RetDecision(RejectData(now))
        /\ ~isVisible
        /\ \E i \in 1..Len(timers) : timers[i] = HideTimer(now)
        /\ call.events = <<Event("banner-hidden"),
                           EventWith("consent-rejected", RejectData(now))>>

\* reject() has run with a box other than 'necessary' checked
C11_Witness ==
    /\ call.op = "reject"
    /\ container = "element"
    /\ \E i \in 1..Len(call.sel) : call.sel[i] # Necessary
    /\ Consent.tag = "decision"

(* C12: after a successful init, revoke() leaves getConsent() returning    *)
(* null, emits 'banner-shown' and then 'consent-revoked' without payload,  *)
(* and when the timers have fired with no further call the banner has      *)
(* display 'block' and the class is-visible.                               *)
C12_RevokeShowsBanner ==
    (container = "element" /\ lastOp = "revoke") =>
        /\ Consent = RetNull
        /\ call.op = "revoke" =>
               call.events = <<Event("banner-shown"), Event("consent-revoked")>>
        /\ timers = <<>> => (display = "block" /\ isVisible)

(* C13: an init that finds the container and no stored decision emits      *)
(* 'banner-shown' once and no 'banner-hidden', and when the timers have    *)
(* fired with no further call the banner has display 'block' and the       *)
(* class is-visible.                                                       *)
C13_InitShowsBanner ==
    (container = "element" /\ lastOp = "init") =>
        /\ (call.op = "init" /\ Consent.tag # "decision") =>
               call.events = <<Event("banner-shown")>>
        /\ (written.by \in {"none", "revoke"} /\ timers = <<>>) =>
               (display = "block" /\ isVisible)

(* C14: an init that finds the container and a stored decision that        *)
(* parses and has not expired emits no 'banner-shown' and does not make    *)
(* the banner visible: it removes the class is-visible, leaves display as  *)
(* it is and registers the timer of hide().                                *)
C14_InitKeepsHidden ==
    [][(call'.op = "init" /\ container' = "element" /\ Consent.tag = "decision") =>
           /\ ~Emitted(call', "banner-shown")
           /\ ~isVisible'
           /\ display' = display
           /\ timers' = Append(timers, HideTimer(now))]_vars

\* init has run on a page with a banner and a stored decision
C14_Witness ==
    /\ call.op = "init"
    /\ container = "element"
    /\ Consent.tag = "decision"
    /\ call.events = <<Event("banner-hidden")>>

(* C15: show(), hide(), a click on a close button, a click on a            *)
(* show-settings button, getConsent(), hasConsent() and viewCookies()      *)
(* leave the stored record as it is: the same value when present, absent   *)
(* when absent.                                                            *)
C15_ReadsKeepRecord ==
    [][call'.op \in {"show", "hide", "click-close", "click-show-settings",
                     "getConsent", "hasConsent", "viewCookies"} =>
           /\ jar' = jar
           /\ getCookie(jar', now', CookieName) = Stored]_vars

\* one of these calls has run while a decision is stored
C15_Witness ==
    /\ call.op \in {"show", "hide", "click-close", "click-show-settings",
                     "getConsent", "hasConsent", "viewCookies"}
    /\ Consent.tag = "decision"

(* C16: a hide() that follows a hide(), at any distance in time, leaves    *)
(* the banner ending, once the timers have fired, with the class and the   *)
(* display it would have ended with after the first hide() alone.          *)
C16_HideTwiceAsOnce ==
    [][(call'.op = "hide" /\ lastOp = "hide" /\ container = "element") =>
           Settled(isVisible', display', timers') =
               Settled(isVisible, display, timers)]_vars

(* C17: 'banner-hidden' is emitted only by a call that takes the banner    *)
(* from visible to hidden: a call made when the last of show() and hide()  *)
(* was not show() emits no 'banner-hidden'.                                *)
C17_HiddenOncePerTransition ==
    [][Emitted(call', "banner-hidden") => lastVis = "show"]_vars

(* C18: the delete of revoke() leaves the record absent; run on a store    *)
(* with no record it changes nothing the page can read; run twice it       *)
(* leaves what it leaves run once; the other cookies of the page stay.     *)
C18_DeleteIdempotent ==
    [][call'.op = "revoke" =>
           LET once  == deleteCookie(jar, now, CookieName)
               twice == deleteCookie(once, now, CookieName)
           IN  /\ jar' = once
               /\ ~getCookie(once, now, CookieName).found
               /\ twice = once
               /\ ~Stored.found => DocumentCookie(once, now) = DocumentCookie(jar, now)
               /\ OtherCookies(once, now) = OtherCookies(jar, now)]_vars

\* revoke() has run on a page that holds another cookie, after other calls
C18_Witness ==
    /\ call.op = "revoke"
    /\ calls > 1
    /\ ~Stored.found
    /\ OtherCookies(jar, now) = <<OtherCookie>>

(* C19: the stored decision is absent when no accept() or reject() has     *)
(* written one or revoke() came last, and otherwise, within the window, is *)
(* exactly the decision the last accept() or reject() computed, with its   *)
(* three fields.                                                           *)
C19_LastDecisionStored ==
    /\ written.by \in {"none", "revoke"} => Consent = RetNull
    /\ (written.valid /\ TimeLT(now, SetCookieExpires(written.at, written.days))) =>
           Consent = RetDecision(written.d)

(* C20: viewCookies() returns one {name, value} entry for each cookie of   *)
(* the page, the value being the whole stored value, and emits             *)
(* 'cookies-viewed' with that list.                                        *)
C20_ViewCookiesListsAll ==
    call.op = "viewCookies" =>
        /\ call.ret = RetCookies(LiveCookies(jar, now))
        /\ call.events = <<EventWithCookies("cookies-viewed", call.ret.cookies)>>

(* C21: after a successful init, a show() followed by no further call      *)
(* leaves the banner, once the timers have fired, with display 'block' and *)
(* the class is-visible, and a hide() leaves it with display 'none' and    *)
(* without the class, whatever calls came before.                          *)
C21_NoTerminalState ==
    (container = "element" /\ lastOp \in {"show", "hide"} /\ timers = <<>>) =>
        /\ lastOp = "show" => (display = "block" /\ isVisible)
        /\ lastOp = "hide" => (display = "none" /\ ~isVisible)

(* C22: hide() removes the class is-visible in the call and leaves display *)
(* to its timer, due 300 ms later; show() sets display 'block' in the call *)
(* and leaves the class to its timer, due 10 ms later; display becomes     *)
(* 'none' and the class is added only when such a timer fires; and as long *)
(* as no show() or hide() has run while a timer was pending, the banner    *)
(* never has display 'none' together with the class.                       *)
C22_TwoPhaseOrder ==
    [][/\ (call'.op = "hide" /\ ~Throws(call'.ret)) =>
              /\ ~isVisible'
              /\ display' = display
              /\ timers' = Append(timers, [kind |-> "hide",
                                           due |-> AddMs(now, HideDelay)])
       /\ (call'.op = "show" /\ ~Throws(call'.ret)) =>
              /\ display' = "block"
              /\ isVisible' = isVisible
              /\ timers' = Append(timers, [kind |-> "show",
                                           due |-> AddMs(now, ShowDelay)])
       /\ (display' = "none" /\ display # "none") =>
              /\ call'.op = "timer"
              /\ \E i \in 1..Len(timers) :
                     /\ timers[i].kind = "hide"
                     /\ TimeLE(timers[i].due, now)
                     /\ timers' = RemoveAt(timers, i)
       /\ (isVisible' /\ ~isVisible) =>
              /\ call'.op = "timer"
              /\ \E i \in 1..Len(timers) :
                     /\ timers[i].kind = "show"
                     /\ TimeLE(timers[i].due, now)
                     /\ timers' = RemoveAt(timers, i)
       /\ ~overlapped' => ~(display' = "none" /\ isVisible')]_vars

\* the timer of a hide() has fired, no call having run while a timer was
\* pending
C22_Witness ==
    /\ call.op = "timer"
    /\ lastOp = "hide"
    /\ ~overlapped
    /\ timers = <<>>
    /\ display = "none"
    /\ ~isVisible

(* C23: accept() and reject() write the store, then emit 'banner-hidden',  *)
(* then 'consent-given' or 'consent-rejected', all inside the call and     *)
(* before the timer of hide() fires; a listener of these notifications     *)
(* that calls getConsent() gets the decision just written.                 *)
C23_WriteBeforeEvents ==
    (call.op \in {"accept", "reject"} /\ Completed) =>
        /\ Len(call.events) = 2
        /\ call.events[1] = Event("banner-hidden")
        /\ call.events[2].name =
               (IF call.op = "accept" THEN "consent-given" ELSE "consent-rejected")
        /\ \E i \in 1..Len(timers) : timers[i] = HideTimer(now)
        /\ Consent = RetDecision(call.events[2].d)

(* C24: an init that finds the container and a stored value that does not  *)
(* parse as a decision shows the banner, as with no record; right after    *)
(* init the banner is being shown exactly when getConsent() reports no     *)
(* decision.                                                               *)
C24_MalformedShowsBanner ==
    (call.op = "init" /\ container = "element") =>
        /\ (Stored.found /\ ~JSONParse(Stored.value).ok) =>
               (call.events = <<Event("banner-shown")>> /\ display = "block")
        /\ (Consent.tag # "decision") <=> (lastVis = "show")

\* the record another tab has left, as the page should read it
TabRecord ==
    IF written.valid /\ TimeLT(now, SetCookieExpires(written.at, written.days))
    THEN RetDecision(written.d)
    ELSE RetNull

C26_OneClickOneCall ==
    [][call'.op \in {"click-accept", "click-reject", "click-close",
                     "click-show-settings"} =>
           /\ Len(call'.events) =
                  (IF call'.op \in {"click-accept", "click-reject"} THEN 2 ELSE 1)
           /\ Len(timers') = Len(timers) + 1]_vars

(* C27: on a page whose banner init has found, whenever no timer is        *)
(* pending the class is-visible is present exactly when display is         *)
(* 'block'.                                                                *)
C27_IndicatorsAgree ==
    (container = "element" /\ timers = <<>>) => (isVisible <=> display = "block")

====
